---- MODULE Spec2Model ----
(***************************************************************************)
(* The Product catalog service: the HTTP route layer of service/routes.py  *)
(* over the Product entity and its relational store.  One action is one    *)
(* whole request (or one direct call on the entity, as the model tests     *)
(* make them); the store is the table of committed rows.                   *)
(***************************************************************************)
EXTENDS Integers, Sequences, FiniteSets, TLC

VARIABLES store,    \* the product table: the committed rows, in insertion order
          nextId,   \* the next value of the table's id sequence
          given,    \* id -> the request body last persisted under that id
          req,      \* the request (or entity call) handled last
          before,   \* the table as it was when that request arrived
          resp      \* the response (or the call's outcome)

vars == <<store, nextId, given, req, before, resp>>

(***************************************************************************)
(* Bounds.                                                                 *)
(***************************************************************************)
\* How many rows the id sequence hands out before creation stops.
MaxId == 2

(***************************************************************************)
(* Constants of the program.                                               *)
(***************************************************************************)
\* Python's None in an id attribute; the id sequence starts at 1 and the
\* <int:...> converter accepts no negative number, so -1 is never a real id.
None == -1

HTTP_200_OK == 200
HTTP_201_CREATED == 201
HTTP_204_NO_CONTENT == 204
HTTP_400_BAD_REQUEST == 400
HTTP_404_NOT_FOUND == 404
HTTP_415_UNSUPPORTED_MEDIA_TYPE == 415
HTTP_500_INTERNAL_SERVER_ERROR == 500

(***************************************************************************)
(* Decimal: coefficient and number of fraction digits, as Python keeps it  *)
(* (Decimal("12.50") keeps the trailing zero and equals Decimal("12.5")).  *)
(***************************************************************************)
Digits == <<"0", "1", "2", "3", "4", "5", "6", "7", "8", "9">>

IsDigit(c) == \E d \in 1..10 : Digits[d] = c

DigitVal(c) == (CHOOSE d \in 1..10 : Digits[d] = c) - 1

RECURSIVE Pow10(_)
Pow10(n) == IF n = 0 THEN 1 ELSE 10 * Pow10(n - 1)

\* Numeric equality of two decimals (the store's and Python's ==).
DecEq(a, b) == a.coef * Pow10(b.exp) = b.coef * Pow10(a.exp)

\* The digits of s read as a number, most significant first.
RECURSIVE DigitsValue(_)
DigitsValue(s) ==
    IF s = <<>> THEN 0
    ELSE 10 * DigitsValue(SubSeq(s, 1, Len(s) - 1)) + DigitVal(s[Len(s)])

\* Decimal(str): the digits as coefficient, those after the point counted.
DecimalOfStr(s) ==
    LET dots == {i \in 1..Len(s) : s[i] = "."}
        ds   == SelectSeq(s, IsDigit)
    IN  [coef |-> DigitsValue(ds),
         exp  |-> IF dots = {} THEN 0 ELSE Len(s) - (CHOOSE i \in dots : TRUE)]

\* The digits of n, at least k of them.
RECURSIVE NatDigits(_, _)
NatDigits(n, k) ==
    IF n < 10 /\ k <= 1 THEN <<Digits[n + 1]>>
    ELSE Append(NatDigits(n \div 10, k - 1), Digits[(n % 10) + 1])

\* str(Decimal): the coefficient with its fraction digits after the point.
StrOfDecimal(d) ==
    LET ds == NatDigits(d.coef, d.exp + 1)
        k  == Len(ds) - d.exp
    IN  IF d.exp = 0 THEN ds
        ELSE SubSeq(ds, 1, k) \o <<".">> \o SubSeq(ds, k + 1, Len(ds))

(***************************************************************************)
(* Category: the enumeration of product classifications.                   *)
(***************************************************************************)
CategoryNames == {"UNKNOWN", "CLOTHS", "FOOD", "HOUSEWARES", "AUTOMOTIVE", "TOOLS"}

Category == [n \in CategoryNames |-> [enum |-> "Category", name |-> n]]

\* hasattr(Category, name) / getattr(Category, name)
HasCategory(name) == name \in DOMAIN Category

\* str.upper() on the category strings a query may carry.
upper(s) ==
    CASE s = "cloths" -> "CLOTHS"
      [] s = "bogus"  -> "BOGUS"
      [] OTHER        -> s

(***************************************************************************)
(* JSON values of a request body, tagged with their Python type.           *)
(***************************************************************************)
JStr(s)    == [t |-> "str", v |-> s]
JBool(b)   == [t |-> "bool", v |-> b]
JNum(c, e) == [t |-> "num", v |-> [coef |-> c, exp |-> e]]
JInt(n)    == [t |-> "int", v |-> n]

JDict(items) == [type |-> "dict", items |-> items]
JList        == [type |-> "list"]

\* Decimal(value) for a JSON number or a numeric string.
DecimalOf(j) == IF j.t = "str" THEN DecimalOfStr(j.v) ELSE j.v

(***************************************************************************)
(* The Product entity (service/models.py) over the table.  The operations  *)
(* take the table and return what they leave behind.                       *)
(***************************************************************************)
\* Product(): every attribute unset.
Product ==
    [id |-> None, name |-> None, description |-> None, price |-> None,
     available |-> None, category |-> None]

\* The outcome of an entity call: the exception raised ("" for none) and
\* the object as the call left it.
Returned(p)   == [raised |-> "", product |-> p]
Raised(e, p)  == [raised |-> e, product |-> p]

\* Product.serialize(): every attribute, the category as its name.
serialize(self) ==
    [id          |-> self.id,
     name        |-> self.name,
     description |-> self.description,
     price       |-> self.price,
     available   |-> self.available,
     category    |-> self.category.name]

\* Product.deserialize(data): the attributes are set one after the other, so
\* a failure leaves the earlier ones already assigned on the object.
deserialize(self, data) ==
    IF data.type # "dict" THEN Raised("DataValidationError", self)
    ELSE
    LET d  == data.items
        p1 == [self EXCEPT !.name = d["name"].v]
        p2 == [p1 EXCEPT !.description = d["description"].v]
        p3 == [p2 EXCEPT !.price = DecimalOf(d["price"])]
        p4 == [p3 EXCEPT !.available = d["available"].v]
        p5 == [p4 EXCEPT !.category = Category[d["category"].v]]
    IN  IF "name" \notin DOMAIN d THEN Raised("DataValidationError", self)
        ELSE IF "description" \notin DOMAIN d THEN Raised("DataValidationError", p1)
        ELSE IF "price" \notin DOMAIN d THEN Raised("DataValidationError", p2)
        ELSE IF "available" \notin DOMAIN d THEN Raised("DataValidationError", p3)
        ELSE IF d["available"].t # "bool" THEN Raised("DataValidationError", p3)
        ELSE IF "category" \notin DOMAIN d THEN Raised("DataValidationError", p4)
        ELSE IF ~HasCategory(d["category"].v) THEN Raised("DataValidationError", p4)
        ELSE Returned(p5)

\* Product.create(): a new row under the next id of the sequence.
create(table, seq, self) ==
    LET row == [self EXCEPT !.id = seq]
    IN  [raised |-> "", product |-> row, table |-> Append(table, row), seq |-> seq + 1]

\* update() without the check of the id.
update_no_id_check(table, self) ==
    [raised |-> "", product |-> self,
     table |-> [i \in DOMAIN table |->
                   IF table[i].id = self.id THEN self ELSE table[i]]]

\* Product.update(): refuses an object without id, else writes the object's
\* attributes to its row.
update(table, self) ==
    IF self.id = None
    THEN [raised |-> "DataValidationError", product |-> self, table |-> table]
    ELSE [raised |-> "", product |-> self,
          table |-> [i \in DOMAIN table |->
                        IF table[i].id = self.id THEN self ELSE table[i]]]

\* Product.delete(): the object's row removed.
delete(table, self) == SelectSeq(table, LAMBDA r : r.id # self.id)

\* Product.all()
all(table) == table

\* Product.find(id): the row of that id, or no product (<<>> for None).
find(table, product_id) == SelectSeq(table, LAMBDA r : r.id = product_id)

\* Product.find_by_name(name)
find_by_name(table, name) == SelectSeq(table, LAMBDA r : r.name = name)

\* Product.find_by_category(category)
find_by_category(table, category) ==
    SelectSeq(table, LAMBDA r : r.category = category)

\* A boolean-like string read as the boolean it spells.
BoolOfStr(s) == s \in {"true", "True", "1", "yes"}

\* Product.find_by_availability(available): a boolean, or a boolean-like string.
find_by_availability(table, available) ==
    LET a == IF available.t = "str" THEN BoolOfStr(available.v) ELSE available.v
    IN  SelectSeq(table, LAMBDA r : r.available = a)

\* find_by_price that compares a string as it comes, which equals no decimal.
find_by_price_no_conversion(table, price) ==
    SelectSeq(table, LAMBDA r : price.t # "str" /\ DecEq(r.price, price.v))

\* Product.find_by_price(price): a number, or a numeric string that is
\* converted to its decimal first.
find_by_price(table, price) ==
    LET p == IF price.t = "str" THEN DecimalOfStr(price.v) ELSE price.v
    IN  SelectSeq(table, LAMBDA r : DecEq(r.price, p))

(***************************************************************************)
(* Responses.                                                              *)
(***************************************************************************)
NoHeaders == <<>>

Response(status, body, headers) ==
    [status |-> status, body |-> body, headers |-> headers]

\* abort(status, message)
abort(status, message) == Response(status, [message |-> message], NoHeaders)

\* What the application answers when a handler lets an exception out: the
\* registered handler turns a DataValidationError into 400, anything else is
\* an internal server error.
error_response(exc) ==
    IF exc = "DataValidationError"
    THEN Response(HTTP_400_BAD_REQUEST, [message |-> exc], NoHeaders)
    ELSE Response(HTTP_500_INTERNAL_SERVER_ERROR, [message |-> exc], NoHeaders)

\* What a handler leaves behind: its response, the table and the id sequence.
Outcome(r, table, seq) == [resp |-> r, store |-> table, nextId |-> seq]

(***************************************************************************)
(* The route layer (service/routes.py).                                    *)
(***************************************************************************)
\* url_for("get_products", product_id=..., _external=True), as path segments.
url_for_get_products(product_id) == <<"products", product_id>>

\* The Location create_products sends: "/", the root path.
location_url == <<>>

\* check_content_type that is content with any Content-Type header.
check_content_type_any(headers, content_type) ==
    IF "Content-Type" \notin DOMAIN headers
    THEN <<abort(HTTP_415_UNSUPPORTED_MEDIA_TYPE,
                 "Content-Type must be " \o content_type)>>
    ELSE <<>>

\* check_content_type(content_type): <<>> when the request may go on, else
\* the response of the abort.
check_content_type(headers, content_type) ==
    IF "Content-Type" \notin DOMAIN headers
    THEN <<abort(HTTP_415_UNSUPPORTED_MEDIA_TYPE,
                 "Content-Type must be " \o content_type)>>
    ELSE IF headers["Content-Type"] = content_type
    THEN <<>>
    ELSE <<abort(HTTP_415_UNSUPPORTED_MEDIA_TYPE,
                 "Content-Type must be " \o content_type)>>

\* POST /products
create_products(table, seq, headers, data) ==
    LET aborted == check_content_type(headers, "application/json")
        d       == deserialize(Product, data)
        c       == create(table, seq, d.product)
    IN  IF aborted # <<>> THEN Outcome(aborted[1], table, seq)
        ELSE IF d.raised # "" THEN Outcome(error_response(d.raised), table, seq)
        ELSE Outcome(Response(HTTP_201_CREATED, serialize(c.product),
                              [Location |-> location_url]),
                     c.table, c.seq)

\* request.args.get(key) is truthy: the parameter is there and not empty.
Truthy(args, key) == key \in DOMAIN args /\ args[key] # ""

\* list_products that looks at the category before the name.
list_products_category_first(table, seq, args) ==
    LET products ==
            IF Truthy(args, "category")
            THEN find_by_category(table, Category[upper(args["category"])])
            ELSE IF Truthy(args, "name")
            THEN find_by_name(table, args["name"])
            ELSE IF Truthy(args, "available")
            THEN find_by_availability(table, JStr(args["available"]))
            ELSE all(table)
    IN  IF /\ Truthy(args, "category")
           /\ ~HasCategory(upper(args["category"]))
        THEN Outcome(error_response("AttributeError"), table, seq)
        ELSE Outcome(Response(HTTP_200_OK,
                              [i \in DOMAIN products |-> serialize(products[i])],
                              NoHeaders),
                     table, seq)

\* GET /products
list_products(table, seq, args) ==
    LET products ==
            IF Truthy(args, "name")
            THEN find_by_name(table, args["name"])
            ELSE IF Truthy(args, "category")
            THEN find_by_category(table, Category[upper(args["category"])])
            ELSE IF Truthy(args, "available")
            THEN find_by_availability(table, JStr(args["available"]))
            ELSE all(table)
    IN  IF /\ ~Truthy(args, "name")
           /\ Truthy(args, "category")
           /\ ~HasCategory(upper(args["category"]))
        THEN Outcome(error_response("AttributeError"), table, seq)
        ELSE Outcome(Response(HTTP_200_OK,
                              [i \in DOMAIN products |-> serialize(products[i])],
                              NoHeaders),
                     table, seq)

\* get_products without the abort: it answers 200 for an absent product too.
get_products_no_abort(table, seq, product_id) ==
    LET product == find(table, product_id)
    IN  IF product = <<>>
        THEN Outcome(Response(HTTP_200_OK, <<>>, NoHeaders), table, seq)
        ELSE Outcome(Response(HTTP_200_OK, serialize(product[1]), NoHeaders),
                     table, seq)

\* GET /products/<product_id>
get_products(table, seq, product_id) ==
    LET product == find(table, product_id)
    IN  IF product = <<>>
        THEN Outcome(abort(HTTP_404_NOT_FOUND,
                           <<"Product with ID - '", product_id, "' not found">>),
                     table, seq)
        ELSE Outcome(Response(HTTP_200_OK, serialize(product[1]), NoHeaders),
                     table, seq)

\* update_products that takes the id from the body when the body carries one.
update_products_body_id(table, seq, headers, product_id, data) ==
    LET aborted == check_content_type(headers, "application/json")
        product == find(table, product_id)
        d       == deserialize(product[1], data)
        id      == IF "id" \in DOMAIN data.items THEN data.items["id"].v
                   ELSE product_id
        u       == update(table, [d.product EXCEPT !.id = id])
    IN  IF aborted # <<>> THEN Outcome(aborted[1], table, seq)
        ELSE IF product = <<>>
        THEN Outcome(abort(HTTP_404_NOT_FOUND,
                           <<"Product with ID - '", product_id, "' not found">>),
                     table, seq)
        ELSE IF d.raised # "" THEN Outcome(error_response(d.raised), table, seq)
        ELSE IF u.raised # "" THEN Outcome(error_response(u.raised), table, seq)
        ELSE Outcome(Response(HTTP_200_OK, serialize(u.product), NoHeaders),
                     u.table, seq)

\* update_products that saves the object as a failed deserialize left it.
update_products_commit_partial(table, seq, headers, product_id, data) ==
    LET aborted == check_content_type(headers, "application/json")
        product == find(table, product_id)
        d       == deserialize(product[1], data)
        u       == update(table, [d.product EXCEPT !.id = product_id])
    IN  IF aborted # <<>> THEN Outcome(aborted[1], table, seq)
        ELSE IF product = <<>>
        THEN Outcome(abort(HTTP_404_NOT_FOUND,
                           <<"Product with ID - '", product_id, "' not found">>),
                     table, seq)
        ELSE IF d.raised # "" THEN Outcome(error_response(d.raised), u.table, seq)
        ELSE IF u.raised # "" THEN Outcome(error_response(u.raised), table, seq)
        ELSE Outcome(Response(HTTP_200_OK, serialize(u.product), NoHeaders),
                     u.table, seq)

\* PUT /products/<int:product_id>
update_products(table, seq, headers, product_id, data) ==
    LET aborted == check_content_type(headers, "application/json")
        product == find(table, product_id)
        d       == deserialize(product[1], data)
        u       == update(table, [d.product EXCEPT !.id = product_id])
    IN  IF aborted # <<>> THEN Outcome(aborted[1], table, seq)
        ELSE IF product = <<>>
        THEN Outcome(abort(HTTP_404_NOT_FOUND,
                           <<"Product with ID - '", product_id, "' not found">>),
                     table, seq)
        ELSE IF d.raised # "" THEN Outcome(error_response(d.raised), table, seq)
        ELSE IF u.raised # "" THEN Outcome(error_response(u.raised), table, seq)
        ELSE Outcome(Response(HTTP_200_OK, serialize(u.product), NoHeaders),
                     u.table, seq)

\* delete_products that reports an absent product as not found.
delete_products_not_found(table, seq, product_id) ==
    LET product == find(table, product_id)
    IN  IF product = <<>>
        THEN Outcome(abort(HTTP_404_NOT_FOUND,
                           <<"Product with ID - '", product_id, "' not found">>),
                     table, seq)
        ELSE Outcome(Response(HTTP_204_NO_CONTENT, "", NoHeaders),
                     delete(table, product[1]), seq)

\* DELETE /products/<int:product_id>
delete_products(table, seq, product_id) ==
    LET product == find(table, product_id)
    IN  Outcome(Response(HTTP_204_NO_CONTENT, "", NoHeaders),
                IF product # <<>> THEN delete(table, product[1]) ELSE table,
                seq)

(***************************************************************************)
(* The inputs the requests are drawn from.                                 *)
(***************************************************************************)
\* The request headers: none, the JSON type, and a type that is not exactly it.
HeaderChoices ==
    << <<>>,
       [h \in {"Content-Type"} |-> "application/json"],
       [h \in {"Content-Type"} |-> "application/json; charset=utf-8"] >>

Fedora ==
    [name        |-> JStr("Fedora"),
     description |-> JStr("A red hat"),
     price       |-> JNum(125, 1),
     available   |-> JBool(TRUE),
     category    |-> JStr("CLOTHS")]

Apple ==
    [name        |-> JStr("Apple"),
     description |-> JStr("A red fruit"),
     price       |-> JStr(<<"1", "2", ".", "5", "0">>),
     available   |-> JBool(FALSE),
     category    |-> JStr("FOOD")]

\* A product whose body also carries an id of its own.
Cap ==
    [id          |-> JInt(1),
     name        |-> JStr("Fedora"),
     description |-> JStr("A blue cap"),
     price       |-> JStr(<<"7">>),
     available   |-> JBool(FALSE),
     category    |-> JStr("CLOTHS")]

\* f without the key k.
Without(f, k) == [x \in DOMAIN f \ {k} |-> f[x]]

\* The request bodies: three products, then a list, a product without price,
\* one whose available is a string and one of no known category.
Bodies ==
    << JDict(Fedora),
       JDict(Apple),
       JDict(Cap),
       JList,
       JDict(Without(Apple, "price")),
       JDict([Apple EXCEPT !.available = JStr("Available")]),
       JDict([Apple EXCEPT !.category = JStr("BOGUS")]) >>

\* What deserialize() is called with: the request bodies, and a product
\* without each of the other required keys.
DeserializeBodies ==
    Bodies \o
    << JDict(Without(Fedora, "name")),
       JDict(Without(Fedora, "description")),
       JDict(Without(Fedora, "available")),
       JDict(Without(Fedora, "category")) >>

\* The ids a path may carry: MaxId + 1 is never in the table.
PathIds == 1..(MaxId + 1)

\* A query parameter that the request does not carry.
Absent == "<absent>"

NameArgs      == {Absent, "", "Fedora"}
CategoryArgs  == {Absent, "", "cloths", "bogus"}
AvailableArgs == {Absent, "", "true", "false"}

\* request.args of a choice of the three parameters.
ArgsOf(n, c, a) ==
    LET choice == [name |-> n, category |-> c, available |-> a]
    IN  [k \in {x \in DOMAIN choice : choice[x] # Absent} |-> choice[k]]

\* The values the entity's queries are called with.
QueryNames      == {"Fedora", "Apple", "Nothing"}
QueryCategories == {"CLOTHS", "FOOD", "TOOLS"}
QueryPrices     ==
    {[coef |-> 125, exp |-> 1], [coef |-> 1250, exp |-> 2],
     [coef |-> 7, exp |-> 0], [coef |-> 999, exp |-> 2]}

(***************************************************************************)
(* The state machine.                                                      *)
(***************************************************************************)
Ids(table) == {table[i].id : i \in DOMAIN table}

\* The bodies persisted under the ids of the table that out leaves, data
\* being the body of a request that out answers with a saved product.
Given(out, saved, data) ==
    [i \in Ids(out.store) |->
        IF saved /\ i = out.resp.body.id THEN data ELSE given[i]]

Init ==
    /\ store = <<>>
    /\ nextId = 1
    /\ given = <<>>
    /\ req = [op |-> "none"]
    /\ before = <<>>
    /\ resp = [status |-> 0]

Handled(request, out, saved, data) ==
    /\ store' = out.store
    /\ nextId' = out.nextId
    /\ resp' = out.resp
    /\ given' = Given(out, saved, data)
    /\ req' = request
    /\ before' = store

CreateProducts ==
    \E h \in DOMAIN HeaderChoices, b \in DOMAIN Bodies :
        LET out == create_products(store, nextId, HeaderChoices[h], Bodies[b])
        IN  /\ out.nextId <= MaxId + 1
            /\ Handled([op |-> "POST", headers |-> HeaderChoices[h],
                        data |-> Bodies[b]],
                       out, out.resp.status = HTTP_201_CREATED, Bodies[b])

ListProducts ==
    \E n \in NameArgs, c \in CategoryArgs, a \in AvailableArgs :
        LET out == list_products(store, nextId, ArgsOf(n, c, a))
        IN  Handled([op |-> "LIST", args |-> ArgsOf(n, c, a)], out, FALSE, JList)

GetProducts ==
    \E id \in PathIds :
        LET out == get_products(store, nextId, id)
        IN  Handled([op |-> "GET", product_id |-> id], out, FALSE, JList)

UpdateProducts ==
    \E h \in DOMAIN HeaderChoices, id \in PathIds, b \in DOMAIN Bodies :
        LET out == update_products(store, nextId, HeaderChoices[h], id, Bodies[b])
        IN  Handled([op |-> "PUT", headers |-> HeaderChoices[h],
                     product_id |-> id, data |-> Bodies[b]],
                    out, out.resp.status = HTTP_200_OK, Bodies[b])

DeleteProducts ==
    \E id \in PathIds :
        LET out == delete_products(store, nextId, id)
        IN  Handled([op |-> "DELETE", product_id |-> id], out, FALSE, JList)

\* A call on the entity itself: what it raised, what it returned, and the
\* table it leaves.
Called(request, raised, result, table) ==
    /\ store' = table
    /\ nextId' = nextId
    /\ resp' = [raised |-> raised, result |-> result]
    /\ given' = [i \in Ids(table) |-> given[i]]
    /\ req' = request
    /\ before' = store

\* update() on a product that was never saved (its id is None).
UpdateUnsaved ==
    \E b \in DOMAIN Bodies :
        LET d == deserialize(Product, Bodies[b])
            u == update(store, d.product)
        IN  /\ d.raised = ""
            /\ Called([op |-> "update", product |-> d.product], u.raised,
                      <<>>, u.table)

\* deserialize() on a fresh product, which is never saved.
Deserialize ==
    \E b \in DOMAIN DeserializeBodies :
        LET d == deserialize(Product, DeserializeBodies[b])
        IN  Called([op |-> "deserialize", data |-> DeserializeBodies[b]],
                   d.raised, <<>>, store)

FindByName ==
    \E n \in QueryNames :
        Called([op |-> "find_by_name", name |-> n], "",
               find_by_name(store, n), store)

FindByCategory ==
    \E c \in QueryCategories :
        Called([op |-> "find_by_category", category |-> Category[c]], "",
               find_by_category(store, Category[c]), store)

FindByAvailability ==
    \E a \in BOOLEAN :
        Called([op |-> "find_by_availability", available |-> a], "",
               find_by_availability(store, JBool(a)), store)

\* find_by_price with a price, or with the string str(price) gives.
FindByPrice ==
    \E p \in QueryPrices, asString \in BOOLEAN :
        LET arg == IF asString THEN JStr(StrOfDecimal(p))
                   ELSE [t |-> "num", v |-> p]
        IN  Called([op |-> "find_by_price", price |-> p, arg |-> arg], "",
                   find_by_price(store, arg), store)

Next ==
    \/ CreateProducts
    \/ ListProducts
    \/ GetProducts
    \/ UpdateProducts
    \/ DeleteProducts
    \/ UpdateUnsaved
    \/ Deserialize
    \/ FindByName
    \/ FindByCategory
    \/ FindByAvailability
    \/ FindByPrice

Spec == Init /\ [][Next]_vars

(***************************************************************************)
(* What the claims speak of.                                               *)
(***************************************************************************)
Rows(table) == {table[i] : i \in DOMAIN table}

JsonType(headers) ==
    "Content-Type" \in DOMAIN headers /\ headers["Content-Type"] = "application/json"

\* A body that is a product: a mapping with every required key, a boolean
\* available and the name of a Category member.
ValidBody(data) ==
    /\ data.type = "dict"
    /\ {"name", "description", "price", "available", "category"} \subseteq DOMAIN data.items
    /\ data.items["available"].t = "bool"
    /\ data.items["category"].v \in CategoryNames

\* The product p (a row, or a serialization with its category name cn)
\* carries the field values of the body.
CarriesBody(p, cn, data) ==
    /\ p.name = data.items["name"].v
    /\ p.description = data.items["description"].v
    /\ DecEq(p.price, DecimalOf(data.items["price"]))
    /\ p.available = data.items["available"].v
    /\ cn = data.items["category"].v

\* The serializations of the rows of table that satisfy Keep, in table order.
Serialized(table, Keep(_)) ==
    LET rows == SelectSeq(table, Keep)
    IN  [i \in DOMAIN rows |-> serialize(rows[i])]

\* A successful POST /products: one row more, with a fresh id and the body's
\* values, nothing else touched, 201 and the new product in the response.
CreateAddsOne ==
    (req.op = "POST" /\ JsonType(req.headers) /\ ValidBody(req.data)) =>
        /\ resp.status = HTTP_201_CREATED
        /\ Len(store) = Len(before) + 1
        /\ Rows(before) \subseteq Rows(store)
        /\ \E r \in Rows(store) \ Rows(before) :
              /\ r.id # None
              /\ r.id \notin Ids(before)
              /\ CarriesBody(r, r.category.name, req.data)
              /\ resp.body = serialize(r)

\* C1: a POST /products with the JSON content type and a valid body adds
\* exactly one product with the body's values and a fresh non-null id, leaves
\* the other products alone, and answers 201 with the new product's
\* serialization and a Location that refers to the created product.
C1_CreateAnswersWithLocationOfProduct ==
    (req.op = "POST" /\ JsonType(req.headers) /\ ValidBody(req.data)) =>
        /\ CreateAddsOne
        /\ "Location" \in DOMAIN resp.headers
        /\ resp.headers["Location"] = url_for_get_products(resp.body.id)

\* C2: GET /products/{id} answers 200 with the serialization of the stored
\* product of that id, whose values are those given when it was created or
\* last updated, and 404 when there is none; the store is unchanged.
C2_GetReturnsStoredProduct ==
    req.op = "GET" =>
        /\ store = before
        /\ IF req.product_id \in Ids(before)
           THEN /\ resp.status = HTTP_200_OK
                /\ resp.body.id = req.product_id
                /\ \E r \in Rows(before) : resp.body = serialize(r)
                /\ CarriesBody(resp.body, resp.body.category, given[req.product_id])
           ELSE resp.status = HTTP_404_NOT_FOUND

C2_Witness ==
    /\ req.op = "GET"
    /\ resp.status = HTTP_200_OK
    /\ Len(store) = 2
    /\ req.product_id = 2
    /\ given[2] = Bodies[3]
    /\ given[1] = Bodies[1]

\* C3: PUT /products/{id} with the JSON content type answers 404 and leaves
\* the store alone when no product has that id; otherwise (the body being a
\* product) the row of that id takes the body's values and keeps the path id
\* whatever id the body carries, the other rows and the number of rows are
\* unchanged, and the answer is 200 with the updated product's serialization.
C3_UpdateReplacesFieldsKeepsId ==
    (req.op = "PUT" /\ JsonType(req.headers)) =>
        IF req.product_id \notin Ids(before)
        THEN resp.status = HTTP_404_NOT_FOUND /\ store = before
        ELSE ValidBody(req.data) =>
                /\ resp.status = HTTP_200_OK
                /\ Len(store) = Len(before)
                /\ \A i \in DOMAIN before :
                      IF before[i].id = req.product_id
                      THEN /\ store[i].id = req.product_id
                           /\ CarriesBody(store[i], store[i].category.name, req.data)
                           /\ resp.body = serialize(store[i])
                      ELSE store[i] = before[i]

C3_Witness ==
    /\ req.op = "PUT"
    /\ resp.status = HTTP_200_OK
    /\ req.product_id = 2
    /\ "id" \in DOMAIN req.data.items
    /\ req.data.items["id"].v = 1
    /\ Len(before) = 2
    /\ store # before

\* C4: DELETE /products/{id} always answers 204 with an empty body; it
\* removes exactly the row of that id when there is one and nothing
\* otherwise, and deleting the same id again leaves the same store.
C4_DeleteIsIdempotent ==
    req.op = "DELETE" =>
        /\ resp.status = HTTP_204_NO_CONTENT
        /\ resp.body = ""
        /\ Rows(store) = {r \in Rows(before) : r.id # req.product_id}
        /\ Len(store) = Len(before)
                          - (IF req.product_id \in Ids(before) THEN 1 ELSE 0)
        /\ (req.product_id \notin Ids(before) => store = before)
        /\ LET again == delete_products(store, nextId, req.product_id)
           IN  again.store = store /\ again.resp = resp

C4_Witness ==
    /\ req.op = "DELETE"
    /\ req.product_id \in Ids(before)
    /\ Len(before) = 2
    /\ Len(store) = 1

\* C5: a POST /products or PUT /products/{id} whose Content-Type is missing
\* or is not exactly application/json answers 415 with a message that names
\* application/json and leaves the store alone, whatever the body is and,
\* for PUT, whether or not a product of the path id exists.
C5_WrongContentTypeIs415 ==
    (req.op \in {"POST", "PUT"} /\ ~JsonType(req.headers)) =>
        /\ resp.status = HTTP_415_UNSUPPORTED_MEDIA_TYPE
        /\ resp.body.message = "Content-Type must be application/json"
        /\ store = before

C5_Witness ==
    /\ req.op = "PUT"
    /\ "Content-Type" \in DOMAIN req.headers
    /\ ~JsonType(req.headers)
    /\ req.product_id \notin Ids(before)
    /\ ~ValidBody(req.data)
    /\ before # <<>>
    /\ resp.status = HTTP_415_UNSUPPORTED_MEDIA_TYPE

\* The rows of the category that a query string names, whatever its case.
OfCategoryNamed(r, c) == r.category.name = upper(c)

\* The rows whose availability a query string spells.
OfAvailabilitySpelled(r, a) ==
    \/ a = "true" /\ r.available = TRUE
    \/ a = "false" /\ r.available = FALSE

\* C6 as stated: a filter applies as soon as its parameter is supplied.  The
\* requests whose category parameter names no Category member are left out
\* (the claim speaks of categories matched to the enumeration).
C6_SuppliedFilterApplies ==
    (/\ req.op = "LIST"
     /\ ("category" \in DOMAIN req.args
            => HasCategory(upper(req.args["category"])))) =>
        /\ resp.status = HTTP_200_OK
        /\ store = before
        /\ resp.body =
             IF "name" \in DOMAIN req.args
             THEN Serialized(before, LAMBDA r : r.name = req.args["name"])
             ELSE IF "category" \in DOMAIN req.args
             THEN Serialized(before, LAMBDA r : OfCategoryNamed(r, req.args["category"]))
             ELSE IF "available" \in DOMAIN req.args
             THEN Serialized(before, LAMBDA r : OfAvailabilitySpelled(r, req.args["available"]))
             ELSE Serialized(before, LAMBDA r : TRUE)

\* A parameter counts as a filter when it is supplied with a value that is
\* not empty.
NonEmpty(args, key) == key \in DOMAIN args /\ args[key] # ""

\* C6, amended: GET /products applies at most one filter, by precedence
\* name, category, available, a parameter counting only when its value is
\* not empty: the products of that name; else those of the category the
\* value names in any case (the request fails when it names none); else
\* those of the availability the value spells; else all.  The answer is 200
\* with their serializations, and the store is unchanged.
C6_NonEmptyFilterApplies ==
    req.op = "LIST" =>
        /\ store = before
        /\ IF NonEmpty(req.args, "name")
           THEN /\ resp.status = HTTP_200_OK
                /\ resp.body = Serialized(before, LAMBDA r : r.name = req.args["name"])
           ELSE IF NonEmpty(req.args, "category")
           THEN IF upper(req.args["category"]) \in CategoryNames
                THEN /\ resp.status = HTTP_200_OK
                     /\ resp.body = Serialized(before,
                            LAMBDA r : OfCategoryNamed(r, req.args["category"]))
                ELSE resp.status # HTTP_200_OK
           ELSE IF NonEmpty(req.args, "available")
           THEN /\ resp.status = HTTP_200_OK
                /\ resp.body = Serialized(before,
                       LAMBDA r : OfAvailabilitySpelled(r, req.args["available"]))
           ELSE /\ resp.status = HTTP_200_OK
                /\ resp.body = Serialized(before, LAMBDA r : TRUE)

C6_Witness ==
    /\ req.op = "LIST"
    /\ NonEmpty(req.args, "name")
    /\ NonEmpty(req.args, "category")
    /\ NonEmpty(req.args, "available")
    /\ resp.status = HTTP_200_OK
    /\ Len(before) = 2
    /\ Len(resp.body) = 1
    /\ resp.body[1].category # upper(req.args["category"])
    /\ resp.body[1].available # (req.args["available"] = "true")

\* C7: a category value that names no Category member is a client error:
\* GET /products without name filter and with such a category answers with
\* a 4xx status, not a 5xx, and leaves the store unchanged.
C7_UnknownCategoryIsClientError ==
    (/\ req.op = "LIST"
     /\ ~NonEmpty(req.args, "name")
     /\ NonEmpty(req.args, "category")
     /\ upper(req.args["category"]) \notin CategoryNames) =>
        /\ resp.status \in 400..499
        /\ store = before

\* C8: update() on a product whose id is None fails with a data-validation
\* error and adds, changes and removes no row, whatever the store holds.
C8_UpdateWithoutIdFails ==
    (req.op = "update" /\ req.product.id = None) =>
        /\ resp.raised = "DataValidationError"
        /\ store = before

C8_Witness ==
    /\ req.op = "update"
    /\ req.product.id = None
    /\ resp.raised = "DataValidationError"
    /\ Len(store) = 2

\* C9: deserialize fails with a data-validation error on a body that is no
\* mapping, misses a required key, has an available that is no boolean or
\* names no known category; it adds no row, and a POST or PUT with such a
\* body leaves every stored product unchanged.
C9_BadBodyIsRejected ==
    /\ (req.op = "deserialize" /\ ~ValidBody(req.data)) =>
          resp.raised = "DataValidationError" /\ store = before
    /\ (req.op \in {"POST", "PUT"} /\ ~ValidBody(req.data)) =>
          resp.status # HTTP_200_OK /\ resp.status # HTTP_201_CREATED /\ store = before
    /\ (/\ req.op \in {"POST", "PUT"}
        /\ ~ValidBody(req.data)
        /\ JsonType(req.headers)
        /\ (req.op = "PUT" => req.product_id \in Ids(before))) =>
          resp.status = HTTP_400_BAD_REQUEST

C9_Witness ==
    /\ req.op = "PUT"
    /\ JsonType(req.headers)
    /\ req.product_id \in Ids(before)
    /\ req.data.type = "dict"
    /\ "available" \in DOMAIN req.data.items
    /\ req.data.items["available"] = JStr("Available")
    /\ given[req.product_id] = Bodies[1]
    /\ resp.status = HTTP_400_BAD_REQUEST
    /\ Len(before) = 2

\* The result of a query is exactly the rows of the table that satisfy
\* Match: each of them once, and no other.
Exactly(result, table, Match(_)) ==
    /\ Rows(result) = {r \in Rows(table) : Match(r)}
    /\ Len(result) = Cardinality({r \in Rows(table) : Match(r)})

\* C10: on every store that creates, updates and deletes lead to,
\* find_by_name, find_by_category, find_by_availability and find_by_price
\* return exactly the stored products whose attribute equals the value,
\* find_by_price the same for a price and for its string form, and none of
\* them changes the store.
C10_QueriesReturnExactMatches ==
    /\ req.op = "find_by_name" =>
          store = before /\ Exactly(resp.result, before, LAMBDA r : r.name = req.name)
    /\ req.op = "find_by_category" =>
          /\ store = before
          /\ Exactly(resp.result, before, LAMBDA r : r.category = req.category)
    /\ req.op = "find_by_availability" =>
          /\ store = before
          /\ Exactly(resp.result, before, LAMBDA r : r.available = req.available)
    /\ req.op = "find_by_price" =>
          /\ store = before
          /\ Exactly(resp.result, before, LAMBDA r : DecEq(r.price, req.price))

C10_Witness ==
    /\ req.op = "find_by_price"
    /\ req.arg.t = "str"
    /\ req.arg.v = <<"1", "2", ".", "5", "0">>
    /\ Len(before) = 2
    /\ Len(resp.result) = 1
    /\ resp.result[1].price = [coef |-> 125, exp |-> 1]

====
